---- MODULE Spec2Model ----
(***************************************************************************)
(* A model of PagerDutyClient (plugins/pagerduty/src/api/client.ts): the   *)
(* five GET accessors, triggerAlarm, getByUrl and request, each call cut   *)
(* at its await points (discovery, transport, body decoding).              *)
(*                                                                         *)
(* Strings are TLA+ strings and URLs are built by concatenation.  A JSON   *)
(* document is represented by its member tree; a response body is either   *)
(* text that does not parse or a parsed document.                          *)
(***************************************************************************)
EXTENDS Integers, Sequences, FiniteSets, TLC

(***************************************************************************)
(* Bounds.                                                                 *)
(***************************************************************************)
\* Longest errors array a stub transport puts in an error body.
MaxErrors == 2
\* Number of calls that may be in flight at once on one client.
MaxCalls == 2

CallIds == 1..MaxCalls
\* Calls issued one after the other (Spec) and concurrently (SpecConc).
SeqCalls == {1}
ConcCalls == CallIds

(***************************************************************************)
(* JavaScript values.                                                      *)
(***************************************************************************)
Undefined == [t |-> "undefined"]
Str(s) == [t |-> "string", s |-> s]
Arr(items) == [t |-> "array", items |-> items]
Obj(members) == [t |-> "object", members |-> members]
Entity(id) == [t |-> "entity", id |-> id]

\* The value of a key of an object literal (undefined when absent).
Member(obj, key) ==
    LET hits == SelectSeq(obj.members, LAMBDA m : m[1] = key)
    IN IF hits = <<>> THEN Undefined ELSE hits[1][2]

\* JSON.stringify: the serialized document keeps the members in order and
\* omits every member whose value is undefined.
RECURSIVE JsonStringify(_)
RECURSIVE StringifyMembers(_)
StringifyMembers(ms) ==
    IF ms = <<>> THEN <<>>
    ELSE LET m == Head(ms)
         IN (IF m[2] = Undefined THEN <<>>
             ELSE << <<m[1], JsonStringify(m[2])>> >>)
            \o StringifyMembers(Tail(ms))

JsonStringify(v) ==
    IF v.t = "object" THEN Obj(StringifyMembers(v.members)) ELSE v

(***************************************************************************)
(* Settlements of a call's promise.                                        *)
(***************************************************************************)
Pending == [kind |-> "pending"]
Returned(v) == [kind |-> "returned", value |-> v]
Thrown(name, msg) == [kind |-> "thrown", error |-> name, message |-> msg]

\* Rejections the discovery function or the transport may produce.
EnvErrors == {Thrown("TypeError", "Failed to fetch"),
              Thrown("AbortError", "The operation was aborted")}

(***************************************************************************)
(* Configuration.                                                          *)
(***************************************************************************)
DefaultEventsBaseUrl == "https://events.pagerduty.com/v2"
CustomEventsBaseUrl == "https://events.example.com/v2"

\* What the application configuration holds for pagerDuty.eventsBaseUrl.
ConfiguredValues == {Undefined, Str(CustomEventsBaseUrl)}

\* fromConfig: configApi.getOptionalString(...) ?? default.
FromConfig(configured) ==
    [eventsBaseUrl |->
        IF configured = Undefined THEN Str(DefaultEventsBaseUrl) ELSE configured]

\* new PagerDutyClient(config) with the optional field passed as it is.
Constructed(configured) == [eventsBaseUrl |-> configured]

\* The discovery service: a base URL for each logical name.
DiscoveryNames == {"proxy", "pagerduty", "events"}
BaseUrlFor(name) == "http://localhost:7007/api/" \o name

ProxyNameNotProxy == "pagerduty"
\* The logical name every accessor passes to discoveryApi.getBaseUrl.
ProxyName == "proxy"

(***************************************************************************)
(* Operations, arguments and URLs.                                         *)
(***************************************************************************)
GetOps == {"getServiceByIntegrationKey", "getServiceByServiceId",
           "getIncidentsByServiceId", "getChangeEventsByServiceId",
           "getOnCallByPolicyId"}
Ops == GetOps \cup {"triggerAlarm"}

Ids == {"abc123", "def456"}

TriggerRequests ==
    [integrationKey : {Str("abc123"), Str("key2")},
     source : {Str("backstage")},
     description : {Str("service down")},
     userName : {Str("person1"), Undefined}]

commonGetServiceParams ==
    "time_zone=UTC&include[]=integrations&include[]=escalation_policies"

\* The URL each accessor builds from the resolved base and its argument.
UrlFor(o, base, id) ==
    CASE o = "getServiceByIntegrationKey" ->
           base \o "/pagerduty/services?" \o commonGetServiceParams
                \o "&query=" \o id
      [] o = "getServiceByServiceId" ->
           base \o "/pagerduty/services/" \o id \o "?" \o commonGetServiceParams
      [] o = "getIncidentsByServiceId" ->
           base \o "/pagerduty/incidents?"
                \o "time_zone=UTC&sort_by=created_at&statuses[]=triggered"
                \o "&statuses[]=acknowledged&service_ids[]=" \o id
      [] o = "getChangeEventsByServiceId" ->
           base \o "/pagerduty/services/" \o id
                \o "/change_events?limit=5&time_zone=UTC&sort_by=timestamp"
      [] o = "getOnCallByPolicyId" ->
           base \o "/pagerduty/oncalls?"
                \o "time_zone=UTC&include[]=users&escalation_policy_ids[]=" \o id

FieldOfSingular(o) ==
    CASE o = "getServiceByIntegrationKey" -> "service"
      [] o = "getServiceByServiceId" -> "service"
      [] o = "getIncidentsByServiceId" -> "incident"
      [] o = "getChangeEventsByServiceId" -> "change_event"
      [] o = "getOnCallByPolicyId" -> "oncall"
\* The top-level field each accessor destructures from the decoded body.
FieldOf(o) ==
    CASE o = "getServiceByIntegrationKey" -> "services"
      [] o = "getServiceByServiceId" -> "service"
      [] o = "getIncidentsByServiceId" -> "incidents"
      [] o = "getChangeEventsByServiceId" -> "change_events"
      [] o = "getOnCallByPolicyId" -> "oncalls"

\* const { field } = doc: undefined when the document has no such field.
Destructure(doc, fld) == IF fld \in DOMAIN doc THEN doc[fld] ELSE Undefined

TriggerBodyKeepsUndefined(r) ==
    Obj(<< <<"event_action", Str("trigger")>>,
           <<"routing_key", r.integrationKey>>,
           <<"client", Str("Backstage")>>,
           <<"client_url", r.source>>,
           <<"payload", Obj(<< <<"summary", r.description>>,
                               <<"source", r.source>>,
                               <<"severity", Str("error")>>,
                               <<"class", Str("manual trigger")>>,
                               <<"custom_details",
                                 Obj(<< <<"user", r.userName>> >>)>> >>)>> >>)
\* The body triggerAlarm serializes.
TriggerBody(r) ==
    JsonStringify(
        Obj(<< <<"event_action", Str("trigger")>>,
               <<"routing_key", r.integrationKey>>,
               <<"client", Str("Backstage")>>,
               <<"client_url", r.source>>,
               <<"payload", Obj(<< <<"summary", r.description>>,
                                   <<"source", r.source>>,
                                   <<"severity", Str("error")>>,
                                   <<"class", Str("manual trigger")>>,
                                   <<"custom_details",
                                     Obj(<< <<"user", r.userName>> >>)>> >>)>> >>))

\* this.config.eventsBaseUrl ?? default, followed by /enqueue.
EventsUrl(cfg) ==
    (IF cfg.eventsBaseUrl = Undefined THEN DefaultEventsBaseUrl
     ELSE cfg.eventsBaseUrl.s) \o "/enqueue"

GetOptions ==
    [method |-> "GET",
     accept |-> "application/vnd.pagerduty+json;version=2",
     contentType |-> "application/json",
     body |-> Undefined]

PostOptions(body) ==
    [method |-> "POST",
     accept |-> "application/json, text/plain, */*",
     contentType |-> "application/json; charset=UTF-8",
     body |-> body]

(***************************************************************************)
(* Responses.                                                              *)
(***************************************************************************)
NotJson == [t |-> "text"]
Json(doc) == [t |-> "json", doc |-> doc]
EmptyDoc == [k \in {} |-> Undefined]

ErrorStrings == {"e1", "e2"}
ErrorArrays == UNION {[1..n -> ErrorStrings] : n \in 0..MaxErrors}

GoodDocA ==
    [services |-> Arr(<<"s1", "s2">>), service |-> Entity("def456"),
     incidents |-> Arr(<<>>), change_events |-> Arr(<<"c2", "c1">>),
     oncalls |-> Arr(<<"o1">>)]
GoodDocB ==
    [services |-> Arr(<<"s2", "s1">>), service |-> Entity("S1"),
     incidents |-> Arr(<<"i2", "i1">>), change_events |-> Arr(<<>>),
     oncalls |-> Arr(<<"o1", "o1">>), errors |-> Arr(<<"e2">>)]

Bodies ==
    {NotJson, Json(EmptyDoc), Json(GoodDocA), Json(GoodDocB)}
    \cup {Json([errors |-> Arr(e)]) : e \in ErrorArrays}

Statuses == {200, 299, 300, 401, 404, 500}
Responses == [status : Statuses, body : Bodies]

\* The smaller stub used when several calls are in flight.
ConcResponses ==
    [status : {200, 500},
     body : {NotJson, Json(GoodDocA), Json([errors |-> Arr(<<"e1", "e2">>)])}]

IsOkBelow400(status) == status < 400
\* response.ok
IsOk(status) == status \in 200..299

ClassifyNo401(status) ==
    CASE status = 404 -> "NotFoundError"
      [] status # 404 /\ ~IsOk(status) -> "failed"
      [] OTHER -> "ok"
ClassifyNo404(status) ==
    CASE status = 401 -> "UnauthorizedError"
      [] status # 401 /\ ~IsOk(status) -> "failed"
      [] OTHER -> "ok"
\* The status tests of request, in the order the code makes them.
Classify(status) ==
    CASE status = 401 -> "UnauthorizedError"
      [] status # 401 /\ status = 404 -> "NotFoundError"
      [] status # 401 /\ status # 404 /\ ~IsOk(status) -> "failed"
      [] OTHER -> "ok"

RECURSIVE JoinErrorsComma(_)
JoinErrorsComma(errs) ==
    IF errs = <<>> THEN ""
    ELSE IF Len(errs) = 1 THEN errs[1]
    ELSE errs[1] \o "," \o JoinErrorsComma(Tail(errs))
\* payload.errors.map(e => e).join(' ')
RECURSIVE JoinErrors(_)
JoinErrors(errs) ==
    IF errs = <<>> THEN ""
    ELSE IF Len(errs) = 1 THEN errs[1]
    ELSE errs[1] \o " " \o JoinErrors(Tail(errs))

FailureMessage(status, errs) ==
    "Request failed with " \o ToString(status) \o ", " \o JoinErrors(errs)

JsonSyntaxError == Thrown("SyntaxError", "Unexpected token in JSON")
NoErrorsTypeError ==
    Thrown("TypeError", "Cannot read properties of undefined (reading 'map')")

ErrorSettlementDegrading(status, body) ==
    IF body.t = "json" /\ "errors" \in DOMAIN body.doc
    THEN Thrown("Error", FailureMessage(status, body.doc.errors.items))
    ELSE Thrown("Error", FailureMessage(status, <<>>))
\* The non-ok branch of request once response.json() has settled.
ErrorSettlement(status, body) ==
    IF body.t # "json" THEN JsonSyntaxError
    ELSE IF Destructure(body.doc, "errors") = Undefined THEN NoErrorsTypeError
    ELSE Thrown("Error", FailureMessage(status, body.doc.errors.items))

\* getByUrl's response.json() settled, then the accessor's destructuring.
ValueSettlement(o, body) ==
    IF body.t # "json" THEN JsonSyntaxError
    ELSE Returned(Destructure(body.doc, FieldOf(o)))

(***************************************************************************)
(* State.                                                                  *)
(***************************************************************************)
VARIABLES
    configured,  \* the application configuration's optional events base URL
    config,      \* the ClientApiConfig captured at construction
    pc,          \* call -> where the call is suspended
    op,          \* call -> the operation invoked
    arg,         \* call -> its argument
    asked,       \* call -> the names it passed to discoveryApi.getBaseUrl
    sent,        \* call -> the requests it passed to fetchApi.fetch
    wire,        \* call -> what the collaborators settled its await with
    response,    \* call -> the local const response of request
    decoded,     \* call -> how often response.json() was called
    outcome,     \* call -> the settlement of the call's promise
    settled      \* call -> how often the call's promise was settled

vars == <<configured, config, pc, op, arg, asked, sent, wire, response,
          decoded, outcome, settled>>

NoOp == "none"
NoArg == [t |-> "none"]
NoWire == [kind |-> "none"]
NoResponse == [status |-> 0, body |-> NotJson]

Init ==
    /\ configured \in ConfiguredValues
    /\ config \in {FromConfig(configured), Constructed(configured)}
    /\ pc = [c \in CallIds |-> "idle"]
    /\ op = [c \in CallIds |-> NoOp]
    /\ arg = [c \in CallIds |-> NoArg]
    /\ asked = [c \in CallIds |-> <<>>]
    /\ sent = [c \in CallIds |-> <<>>]
    /\ wire = [c \in CallIds |-> NoWire]
    /\ response = [c \in CallIds |-> NoResponse]
    /\ decoded = [c \in CallIds |-> 0]
    /\ outcome = [c \in CallIds |-> Pending]
    /\ settled = [c \in CallIds |-> 0]

SendRequestTwice(c, req) == [sent EXCEPT ![c] = @ \o <<req, req>>]
\* this.config.fetchApi.fetch(url, options)
SendRequest(c, req) == [sent EXCEPT ![c] = Append(@, req)]

StoreResponseShared(c, resp) == [d \in CallIds |-> resp]
\* const response = await ...: a binding local to the call.
StoreResponse(c, resp) == [response EXCEPT ![c] = resp]

Settle(c, result) ==
    /\ outcome' = [outcome EXCEPT ![c] = result]
    /\ settled' = [settled EXCEPT ![c] = @ + 1]
    /\ pc' = [pc EXCEPT ![c] = "done"]

\* An accessor up to its first await: the discovery function is asked.
BeginGet(c, o, id) ==
    /\ pc[c] = "idle"
    /\ op' = [op EXCEPT ![c] = o]
    /\ arg' = [arg EXCEPT ![c] = Str(id)]
    /\ asked' = [asked EXCEPT ![c] = Append(@, ProxyName)]
    /\ pc' = [pc EXCEPT ![c] = "awaitDiscovery"]
    /\ UNCHANGED <<configured, config, sent, wire, response, decoded,
                   outcome, settled>>

getServiceByIntegrationKey(c, integrationKey) ==
    BeginGet(c, "getServiceByIntegrationKey", integrationKey)

getServiceByServiceId(c, serviceId) ==
    BeginGet(c, "getServiceByServiceId", serviceId)

getIncidentsByServiceId(c, serviceId) ==
    BeginGet(c, "getIncidentsByServiceId", serviceId)

getChangeEventsByServiceId(c, serviceId) ==
    BeginGet(c, "getChangeEventsByServiceId", serviceId)

getOnCallByPolicyId(c, policyId) ==
    BeginGet(c, "getOnCallByPolicyId", policyId)

\* triggerAlarm runs synchronously into request, up to the await of fetch.
triggerAlarm(c, r) ==
    /\ pc[c] = "idle"
    /\ op' = [op EXCEPT ![c] = "triggerAlarm"]
    /\ arg' = [arg EXCEPT ![c] = r]
    /\ sent' = SendRequest(c, [url |-> EventsUrl(config),
                               options |-> PostOptions(TriggerBody(r))])
    /\ pc' = [pc EXCEPT ![c] = "awaitFetch"]
    /\ UNCHANGED <<configured, config, asked, wire, response, decoded,
                   outcome, settled>>

\* getBaseUrl resolved: the accessor builds its URL and getByUrl and request
\* run up to the await of fetch.
DiscoveryResolve(c) ==
    /\ pc[c] = "awaitDiscovery"
    /\ LET base == BaseUrlFor(asked[c][Len(asked[c])])
       IN /\ wire' = [wire EXCEPT ![c] = [kind |-> "base", base |-> base]]
          /\ sent' = SendRequest(c, [url |-> UrlFor(op[c], base, arg[c].s),
                                     options |-> GetOptions])
    /\ pc' = [pc EXCEPT ![c] = "awaitFetch"]
    /\ UNCHANGED <<configured, config, op, arg, asked, response, decoded,
                   outcome, settled>>

\* getBaseUrl rejected: nothing catches it.
DiscoveryReject(c, e) ==
    /\ pc[c] = "awaitDiscovery"
    /\ wire' = [wire EXCEPT ![c] = [kind |-> "discoveryRejected", error |-> e]]
    /\ Settle(c, e)
    /\ UNCHANGED <<configured, config, op, arg, asked, sent, response,
                   decoded>>

\* fetch resolved: request classifies the status; on the ok path
\* triggerAlarm's promise resolves with the response and getByUrl calls
\* response.json().
FetchResolve(c, resp) ==
    /\ pc[c] = "awaitFetch"
    /\ wire' = [wire EXCEPT ![c] = [kind |-> "response", response |-> resp]]
    /\ response' = StoreResponse(c, resp)
    /\ LET class == Classify(resp.status)
       IN CASE class \in {"UnauthorizedError", "NotFoundError"} ->
                 /\ Settle(c, Thrown(class, ""))
                 /\ UNCHANGED decoded
            [] class = "failed" ->
                 /\ decoded' = [decoded EXCEPT ![c] = @ + 1]
                 /\ pc' = [pc EXCEPT ![c] = "awaitErrorJson"]
                 /\ UNCHANGED <<outcome, settled>>
            [] class = "ok" /\ op[c] = "triggerAlarm" ->
                 /\ Settle(c, Returned([t |-> "response", response |-> resp]))
                 /\ UNCHANGED decoded
            [] class = "ok" /\ op[c] # "triggerAlarm" ->
                 /\ decoded' = [decoded EXCEPT ![c] = @ + 1]
                 /\ pc' = [pc EXCEPT ![c] = "awaitJson"]
                 /\ UNCHANGED <<outcome, settled>>
    /\ UNCHANGED <<configured, config, op, arg, asked, sent>>

\* fetch rejected: nothing catches it.
FetchReject(c, e) ==
    /\ pc[c] = "awaitFetch"
    /\ wire' = [wire EXCEPT ![c] = [kind |-> "fetchRejected", error |-> e]]
    /\ Settle(c, e)
    /\ UNCHANGED <<configured, config, op, arg, asked, sent, response,
                   decoded>>

\* response.json() of the non-ok branch settled.
ErrorJsonSettle(c) ==
    /\ pc[c] = "awaitErrorJson"
    /\ Settle(c, ErrorSettlement(response[c].status, response[c].body))
    /\ UNCHANGED <<configured, config, op, arg, asked, sent, wire, response,
                   decoded>>

\* response.json() of getByUrl settled.
JsonSettle(c) ==
    /\ pc[c] = "awaitJson"
    /\ Settle(c, ValueSettlement(op[c], response[c].body))
    /\ UNCHANGED <<configured, config, op, arg, asked, sent, wire, response,
                   decoded>>

\* The caller has taken the settlement; the call's frame is gone.
Return(c) ==
    /\ pc[c] = "done"
    /\ pc' = [pc EXCEPT ![c] = "idle"]
    /\ op' = [op EXCEPT ![c] = NoOp]
    /\ arg' = [arg EXCEPT ![c] = NoArg]
    /\ asked' = [asked EXCEPT ![c] = <<>>]
    /\ sent' = [sent EXCEPT ![c] = <<>>]
    /\ wire' = [wire EXCEPT ![c] = NoWire]
    /\ response' = [response EXCEPT ![c] = NoResponse]
    /\ decoded' = [decoded EXCEPT ![c] = 0]
    /\ outcome' = [outcome EXCEPT ![c] = Pending]
    /\ settled' = [settled EXCEPT ![c] = 0]
    /\ UNCHANGED <<configured, config>>

Next ==
    \E c \in SeqCalls :
        \/ \E id \in Ids : getServiceByIntegrationKey(c, id)
        \/ \E id \in Ids : getServiceByServiceId(c, id)
        \/ \E id \in Ids : getIncidentsByServiceId(c, id)
        \/ \E id \in Ids : getChangeEventsByServiceId(c, id)
        \/ \E id \in Ids : getOnCallByPolicyId(c, id)
        \/ \E r \in TriggerRequests : triggerAlarm(c, r)
        \/ DiscoveryResolve(c)
        \/ \E e \in EnvErrors : DiscoveryReject(c, e)
        \/ \E resp \in Responses : FetchResolve(c, resp)
        \/ \E e \in EnvErrors : FetchReject(c, e)
        \/ ErrorJsonSettle(c)
        \/ JsonSettle(c)
        \/ Return(c)

Spec == Init /\ [][Next]_vars

NextConc ==
    \E c \in ConcCalls :
        \/ getServiceByIntegrationKey(c, "abc123")
        \/ getServiceByServiceId(c, "def456")
        \/ getIncidentsByServiceId(c, "def456")
        \/ getChangeEventsByServiceId(c, "def456")
        \/ getOnCallByPolicyId(c, "def456")
        \/ \E r \in {q \in TriggerRequests :
                        q.integrationKey = Str("abc123")
                        /\ q.userName = Undefined} : triggerAlarm(c, r)
        \/ DiscoveryResolve(c)
        \/ DiscoveryReject(c, Thrown("TypeError", "Failed to fetch"))
        \/ \E resp \in ConcResponses : FetchResolve(c, resp)
        \/ FetchReject(c, Thrown("TypeError", "Failed to fetch"))
        \/ ErrorJsonSettle(c)
        \/ JsonSettle(c)
        \/ Return(c)

InitConc ==
    /\ Init
    /\ configured = Undefined
    /\ config = FromConfig(configured)

SpecConc == InitConc /\ [][NextConc]_vars

(***************************************************************************)
(* Properties.                                                             *)
(***************************************************************************)
Done(c) == pc[c] = "done"
HasResponse(c) == wire[c].kind = "response"
Status(c) == wire[c].response.status
Body(c) == wire[c].response.body
OtherNon2xx(c) ==
    HasResponse(c) /\ Status(c) \notin 200..299 /\ Status(c) \notin {401, 404}
HasErrorsArray(c) ==
    HasResponse(c) /\ Body(c).t = "json" /\ "errors" \in DOMAIN Body(c).doc

\* C1: a response with status 401 makes the call raise UnauthorizedError,
\* whatever the operation and the body, and the body is never decoded.
C1_Unauthorized401 ==
    \A c \in CallIds :
        (HasResponse(c) /\ Status(c) = 401)
            => /\ Done(c)
               /\ outcome[c] = Thrown("UnauthorizedError", "")
               /\ decoded[c] = 0

C1_Witness ==
    \E c \in CallIds :
        /\ Done(c) /\ op[c] = "triggerAlarm"
        /\ HasResponse(c) /\ Status(c) = 401 /\ Body(c) = Json(GoodDocB)
        /\ outcome[c].kind = "thrown"

\* C2: a response with status 404 makes the call raise NotFoundError,
\* whatever the operation and the body, never UnauthorizedError and never
\* the generic failure.
C2_NotFound404 ==
    \A c \in CallIds :
        (HasResponse(c) /\ Status(c) = 404)
            => /\ Done(c)
               /\ outcome[c] = Thrown("NotFoundError", "")
               /\ outcome[c].error \notin {"UnauthorizedError", "Error"}

C2_Witness ==
    \E c \in CallIds :
        /\ Done(c) /\ op[c] = "getServiceByServiceId"
        /\ HasResponse(c) /\ Status(c) = 404
        /\ Body(c) = Json([errors |-> Arr(<<"e1">>)])
        /\ outcome[c].kind = "thrown"

\* The elements of errs up to the n-th, in order, separated by one space.
RECURSIVE SpaceSeparated(_, _)
SpaceSeparated(errs, n) ==
    IF n = 0 THEN ""
    ELSE IF n = 1 THEN errs[1]
    ELSE SpaceSeparated(errs, n - 1) \o " " \o errs[n]

C4_AccessorReturnsNamedField ==
    \A c \in CallIds :
        (Done(c) /\ op[c] \in GetOps /\ HasResponse(c)
         /\ Status(c) \in 200..299 /\ Body(c).t = "json")
            => LET doc == Body(c).doc
               IN /\ (op[c] = "getServiceByIntegrationKey"
                        /\ "services" \in DOMAIN doc)
                        => outcome[c] = Returned(doc.services)
                  /\ (op[c] = "getServiceByServiceId"
                        /\ "service" \in DOMAIN doc)
                        => outcome[c] = Returned(doc.service)
                  /\ (op[c] = "getIncidentsByServiceId"
                        /\ "incidents" \in DOMAIN doc)
                        => outcome[c] = Returned(doc.incidents)
                  /\ (op[c] = "getChangeEventsByServiceId"
                        /\ "change_events" \in DOMAIN doc)
                        => outcome[c] = Returned(doc.change_events)
                  /\ (op[c] = "getOnCallByPolicyId"
                        /\ "oncalls" \in DOMAIN doc)
                        => outcome[c] = Returned(doc.oncalls)
                  /\ (op[c] = "getIncidentsByServiceId" /\ doc = GoodDocA)
                        => outcome[c] = Returned(Arr(<<>>))

C4_Witness ==
    \E c \in CallIds :
        /\ Done(c) /\ op[c] = "getIncidentsByServiceId"
        /\ HasResponse(c) /\ Status(c) = 200 /\ Body(c) = Json(GoodDocA)
        /\ outcome[c].kind = "returned"

\* A serialized document is valid JSON when no value in it is undefined.
RECURSIVE ValidJson(_)
ValidJson(v) ==
    /\ v # Undefined
    /\ v.t = "object" =>
          \A i \in 1..Len(v.members) : ValidJson(v.members[i][2])

\* C5: every body triggerAlarm sends has event_action "trigger",
\* payload.severity "error" and routing_key equal to the request's
\* integrationKey, and is a valid JSON object also when userName is omitted.
C5_TriggerBody ==
    \A c \in CallIds :
        op[c] = "triggerAlarm" =>
            \A i \in 1..Len(sent[c]) :
                LET body == sent[c][i].options.body
                IN /\ body.t = "object"
                   /\ ValidJson(body)
                   /\ Member(body, "event_action") = Str("trigger")
                   /\ Member(Member(body, "payload"), "severity") = Str("error")
                   /\ Member(body, "routing_key") = arg[c].integrationKey

C5_Witness ==
    \E c \in CallIds :
        /\ op[c] = "triggerAlarm" /\ arg[c].userName = Undefined
        /\ arg[c].integrationKey = Str("key2")
        /\ Len(sent[c]) = 1

\* C6 as stated: every finished call has invoked the transport exactly once
\* and has been settled exactly once.
C6_ExactlyOneFetch ==
    \A c \in CallIds : Done(c) => (Len(sent[c]) = 1 /\ settled[c] = 1)

\* C6 as amended: a call never invokes the transport more than once and is
\* settled exactly once, with a value or a raised condition; the transport
\* has been invoked exactly once in every call that got past discovery,
\* and not at all in a call whose discovery was rejected.
C6_AtMostOneFetch ==
    \A c \in CallIds :
        /\ Len(sent[c]) <= 1
        /\ settled[c] <= 1
        /\ pc[c] \in {"awaitFetch", "awaitErrorJson", "awaitJson"}
              => (Len(sent[c]) = 1 /\ settled[c] = 0)
        /\ Done(c) =>
              /\ settled[c] = 1
              /\ outcome[c].kind \in {"returned", "thrown"}
              /\ Len(sent[c]) = 1 <=> wire[c].kind # "discoveryRejected"
              /\ op[c] = "triggerAlarm" => Len(sent[c]) = 1

C6_Witness ==
    \E c \in CallIds :
        /\ Done(c) /\ HasResponse(c) /\ Status(c) = 500
        /\ Len(sent[c]) = 1 /\ settled[c] = 1

\* What a call with this operation settles with, given what the
\* collaborators settled its own awaits with.
OwnOutcome(o, w) ==
    CASE w.kind \in {"discoveryRejected", "fetchRejected"} -> w.error
      [] w.kind = "response" ->
           LET st == w.response.status
               body == w.response.body
           IN CASE st = 401 -> Thrown("UnauthorizedError", "")
                [] st = 404 -> Thrown("NotFoundError", "")
                [] st \notin {401, 404} /\ st \notin 200..299 ->
                     ErrorSettlement(st, body)
                [] st \in 200..299 /\ o = "triggerAlarm" ->
                     Returned([t |-> "response", response |-> w.response])
                [] st \in 200..299 /\ o # "triggerAlarm" ->
                     ValueSettlement(o, body)

Frame(c) ==
    <<pc[c], op[c], arg[c], asked[c], sent[c], wire[c], response[c],
      decoded[c], outcome[c], settled[c]>>

\* C7: with several calls in flight, under every interleaving, a finished
\* call's outcome is the one its own operation and its own response (or
\* rejection) determine, a step changes the state of one call only, and the
\* configuration captured at construction never changes.
C7_CallsIndependent ==
    /\ [](\A c \in CallIds : Done(c) => outcome[c] = OwnOutcome(op[c], wire[c]))
    /\ [][/\ config' = config
          /\ configured' = configured
          /\ \A c, d \in CallIds :
                (c # d /\ Frame(c)' # Frame(c)) => Frame(d)' = Frame(d)]_vars

C7_Witness ==
    /\ Done(1) /\ op[1] = "getIncidentsByServiceId"
    /\ HasResponse(1) /\ Status(1) = 200 /\ Body(1) = Json(GoodDocA)
    /\ Done(2) /\ op[2] = "triggerAlarm"
    /\ HasResponse(2) /\ Status(2) = 500 /\ Body(2) = NotJson

\* C8: every request of a GET accessor goes to the base URL the discovery
\* function gives for 'proxy' followed by the accessor's path and query
\* string; triggerAlarm POSTs to the configured events base URL, or else the
\* default one, followed by /enqueue, and never asks the discovery function.
C8_RequestTargets ==
    \A c \in CallIds :
        /\ op[c] \in GetOps =>
              /\ asked[c] = <<"proxy">>
              /\ \A i \in 1..Len(sent[c]) :
                    LET url == sent[c][i].url
                        base == BaseUrlFor("proxy")
                        id == arg[c].s
                    IN /\ sent[c][i].options.method = "GET"
                       /\ op[c] = "getServiceByIntegrationKey" => url =
                            base \o "/pagerduty/services?time_zone=UTC&include[]=integrations&include[]=escalation_policies&query=" \o id
                       /\ op[c] = "getServiceByServiceId" => url =
                            base \o "/pagerduty/services/" \o id \o "?time_zone=UTC&include[]=integrations&include[]=escalation_policies"
                       /\ op[c] = "getIncidentsByServiceId" => url =
                            base \o "/pagerduty/incidents?time_zone=UTC&sort_by=created_at&statuses[]=triggered&statuses[]=acknowledged&service_ids[]=" \o id
                       /\ op[c] = "getChangeEventsByServiceId" => url =
                            base \o "/pagerduty/services/" \o id \o "/change_events?limit=5&time_zone=UTC&sort_by=timestamp"
                       /\ op[c] = "getOnCallByPolicyId" => url =
                            base \o "/pagerduty/oncalls?time_zone=UTC&include[]=users&escalation_policy_ids[]=" \o id
        /\ op[c] = "triggerAlarm" =>
              /\ asked[c] = <<>>
              /\ Len(sent[c]) = 1
              /\ sent[c][1].options.method = "POST"
              /\ sent[c][1].url =
                    (IF configured = Undefined
                     THEN "https://events.pagerduty.com/v2"
                     ELSE configured.s) \o "/enqueue"

C8_Witness ==
    \E c \in CallIds :
        /\ op[c] = "getIncidentsByServiceId" /\ arg[c] = Str("def456")
        /\ Len(sent[c]) = 1
        /\ sent[c][1].url = "http://localhost:7007/api/proxy/pagerduty/incidents?time_zone=UTC&sort_by=created_at&statuses[]=triggered&statuses[]=acknowledged&service_ids[]=def456"

RawResponse(c) == Returned([t |-> "response", response |-> wire[c].response])

\* C9 as stated: triggerAlarm resolves with the raw response exactly when
\* the status is 2xx and raises UnauthorizedError on 401, NotFoundError on
\* 404 and the generic "Request failed with" Error on every other status.
C9_TriggerClassified ==
    \A c \in CallIds :
        (Done(c) /\ op[c] = "triggerAlarm" /\ HasResponse(c)) =>
            /\ outcome[c].kind = "returned" <=> Status(c) \in 200..299
            /\ Status(c) \in 200..299 =>
                  (outcome[c] = RawResponse(c) /\ decoded[c] = 0)
            /\ Status(c) = 401 => outcome[c] = Thrown("UnauthorizedError", "")
            /\ Status(c) = 404 => outcome[c] = Thrown("NotFoundError", "")
            /\ OtherNon2xx(c) => outcome[c].error = "Error"

\* C9 as amended: the same, except that on a status other than 2xx, 401 and
\* 404 the generic Error is raised when the body decodes to a document with
\* an errors array, and the decoding failure is raised otherwise; the
\* response is returned on no non-2xx status.
C9_TriggerClassifiedDecodable ==
    \A c \in CallIds :
        (Done(c) /\ op[c] = "triggerAlarm" /\ HasResponse(c)) =>
            /\ outcome[c].kind = "returned" <=> Status(c) \in 200..299
            /\ Status(c) \in 200..299 =>
                  (outcome[c] = RawResponse(c) /\ decoded[c] = 0)
            /\ Status(c) = 401 => outcome[c] = Thrown("UnauthorizedError", "")
            /\ Status(c) = 404 => outcome[c] = Thrown("NotFoundError", "")
            /\ (OtherNon2xx(c) /\ HasErrorsArray(c)) =>
                  /\ outcome[c].error = "Error"
                  /\ outcome[c].message =
                        "Request failed with " \o ToString(Status(c)) \o ", "
                        \o SpaceSeparated(Body(c).doc.errors.items,
                                          Len(Body(c).doc.errors.items))
            /\ (OtherNon2xx(c) /\ ~HasErrorsArray(c)) =>
                  outcome[c] \in {JsonSyntaxError, NoErrorsTypeError}

C9_Witness ==
    \E c \in CallIds :
        /\ Done(c) /\ op[c] = "triggerAlarm" /\ HasResponse(c)
        /\ Status(c) = 299 /\ Body(c) = NotJson
        /\ outcome[c].kind = "returned"

\* C10: nothing is recovered: on a non-2xx status other than 401 and 404
\* with a body that is not JSON or has no errors array the call ends with
\* the decoding failure, not with the "Request failed with" Error and not
\* with a value; a rejection of the discovery function or of the transport
\* is the call's rejection, unchanged.
C10_FailuresPropagate ==
    \A c \in CallIds :
        Done(c) =>
            /\ (OtherNon2xx(c) /\ Body(c).t # "json") =>
                  outcome[c] = Thrown("SyntaxError", "Unexpected token in JSON")
            /\ (OtherNon2xx(c) /\ Body(c).t = "json" /\ ~HasErrorsArray(c)) =>
                  /\ outcome[c].kind = "thrown"
                  /\ outcome[c].error = "TypeError"
            /\ (OtherNon2xx(c) /\ ~HasErrorsArray(c)) =>
                  /\ outcome[c].kind # "returned"
                  /\ outcome[c].error # "Error"
            /\ wire[c].kind = "discoveryRejected" =>
                  (outcome[c] = wire[c].error /\ sent[c] = <<>>)
            /\ wire[c].kind = "fetchRejected" => outcome[c] = wire[c].error

C10_Witness ==
    \E c \in CallIds :
        /\ Done(c) /\ OtherNon2xx(c) /\ Status(c) = 500
        /\ Body(c) = Json(EmptyDoc)
        /\ outcome[c].kind = "thrown"

====
